---- MODULE Spec2Model ----
(***************************************************************************)
(* Risk propagation and cost simulation of the shipyard decision support   *)
(* system: BayesianNetworkModel, MonteCarloSimulator and                   *)
(* DecisionSupportSystem of src/3.py (repeated verbatim in src/4.py).      *)
(*                                                                         *)
(* Python floats are modelled by exact rationals <<n, d>> in lowest terms  *)
(* with d > 0; a Python dict is a function whose DOMAIN is its key set.    *)
(***************************************************************************)
EXTENDS Integers, Sequences, FiniteSets, TLC

VARIABLES
  risk_structure,   \* BayesianNetworkModel.risk_structure: id -> RiskFactor
  structure_keys,   \* iteration order of risk_structure.keys()
  cpt,              \* BayesianNetworkModel.cpt: id -> (parent states -> probability)
  cost_impacts,     \* ShipbuildingOntology.cost_impacts: id -> CostImpact
  evidence,         \* BayesianNetworkModel.evidence: id -> bool
  ret               \* what the last call did: its name, arguments, outcome

vars == <<risk_structure, structure_keys, cpt, cost_impacts, evidence, ret>>

(***************************************************************************)
(* Bounds of the model.                                                    *)
(***************************************************************************)
\* Depth of nested calculate_probability frames the interpreter allows
\* before it raises RecursionError.
StackLimit == 6
\* Largest number of entries of an `events` dict passed to update_status or
\* what_if_analysis.
MaxEvents == 2
\* Number of iterations what_if_analysis simulates (5000 in the code).
WhatIfIterations == 1
\* Largest n_iterations a client passes to run_simulation (10000 by default
\* in the code).
MaxIterations == 2

(***************************************************************************)
(* Float arithmetic, as exact rationals.                                   *)
(***************************************************************************)
Abs(x) == IF x < 0 THEN -x ELSE x

RECURSIVE GCD(_, _)
GCD(a, b) == IF b = 0 THEN a ELSE GCD(b, a % b)

Rat(n, d) == LET g == GCD(Abs(n), d) IN <<n \div g, d \div g>>

RZero == Rat(0, 1)
ROne == Rat(1, 1)

RMul(p, q) ==
  LET g1 == GCD(Abs(p[1]), q[2])
      g2 == GCD(Abs(q[1]), p[2])
  IN Rat((p[1] \div g1) * (q[1] \div g2), (p[2] \div g2) * (q[2] \div g1))

RAdd(p, q) ==
  LET g == GCD(p[2], q[2])
      l == (p[2] \div g) * q[2]
  IN Rat(p[1] * (l \div p[2]) + q[1] * (l \div q[2]), l)

RSub(p, q) == RAdd(p, <<-q[1], q[2]>>)

\* p <= q and p < q, for rationals with small denominators
RLe(p, q) == p[1] * q[2] <= q[1] * p[2]
RLt(p, q) == p[1] * q[2] < q[1] * p[2]

(***************************************************************************)
(* Layer 1: the ontology's data.                                           *)
(***************************************************************************)
\* RiskFactor(name, probability, parents); the label `name` is only printed
RiskFactor(probability, parents) ==
  [probability |-> probability, parents |-> parents]

\* CostImpact(factor, base_cost, multiplier_if_triggered); `factor` is a label
CostImpact(base_cost, multiplier_if_triggered) ==
  [base_cost |-> base_cost, multiplier_if_triggered |-> multiplier_if_triggered]

SampleStructure ==
  "material_delay" :> RiskFactor(Rat(30, 100), <<>>) @@
  "design_change" :> RiskFactor(Rat(15, 100), <<>>) @@
  "manpower_shortage" :> RiskFactor(Rat(25, 100), <<>>) @@
  "bad_weather" :> RiskFactor(Rat(20, 100), <<>>) @@
  "block_delay" :> RiskFactor(RZero, <<"material_delay", "manpower_shortage">>) @@
  "rework" :> RiskFactor(RZero, <<"design_change", "bad_weather">>) @@
  "idle_time" :> RiskFactor(RZero, <<"material_delay", "block_delay">>) @@
  "overtime" :> RiskFactor(RZero, <<"block_delay", "idle_time">>) @@
  "material_waste" :> RiskFactor(RZero, <<"rework", "design_change">>) @@
  "equipment_extend" :> RiskFactor(RZero, <<"block_delay", "bad_weather">>)

SampleKeys ==
  <<"material_delay", "design_change", "manpower_shortage", "bad_weather",
    "block_delay", "rework", "idle_time", "overtime", "material_waste",
    "equipment_extend">>

SampleCostImpacts ==
  "overtime" :> CostImpact(Rat(30, 10), Rat(15, 10)) @@
  "material_waste" :> CostImpact(Rat(10, 10), Rat(20, 10)) @@
  "equipment_extend" :> CostImpact(Rat(20, 10), Rat(13, 10)) @@
  "rework" :> CostImpact(Rat(15, 10), Rat(18, 10))

\* The cost table query_cost_impacts builds from an ontology file that
\* declares block_delay and idle_time as cost drivers (hasCostImpact 10.0 and
\* 8.0) next to the sample's overtime: the multiplier is always 1.5.
RdfCostImpacts ==
  "block_delay" :> CostImpact(Rat(100, 10), Rat(15, 10)) @@
  "idle_time" :> CostImpact(Rat(80, 10), Rat(15, 10)) @@
  "overtime" :> CostImpact(Rat(30, 10), Rat(15, 10))

\* One CPT row set: P(child | first parent, second parent)
Cpt2(tt, tf, ft, ff) ==
  <<TRUE, TRUE>> :> Rat(tt, 100) @@ <<TRUE, FALSE>> :> Rat(tf, 100) @@
  <<FALSE, TRUE>> :> Rat(ft, 100) @@ <<FALSE, FALSE>> :> Rat(ff, 100)

InitialCpt ==
  "block_delay" :> Cpt2(85, 60, 55, 10) @@
  "rework" :> Cpt2(75, 50, 30, 5) @@
  "idle_time" :> Cpt2(90, 70, 50, 5) @@
  "overtime" :> Cpt2(95, 70, 60, 10) @@
  "material_waste" :> Cpt2(80, 60, 40, 5) @@
  "equipment_extend" :> Cpt2(85, 65, 45, 10)

(***************************************************************************)
(* Risk structures other than the built-in sample.  src/4.py fills         *)
(* risk_structure from whatever factors and `causes` edges the ontology    *)
(* holds (_query_rdf_structure), while the CPT stays the built-in one      *)
(* unless a client assigns model.cpt.                                      *)
(***************************************************************************)
\* Two roots and one CPT-backed child, then a grandchild: the part of the
\* sample graph above idle_time.
ChainStructure ==
  "material_delay" :> RiskFactor(Rat(30, 100), <<>>) @@
  "manpower_shortage" :> RiskFactor(Rat(25, 100), <<>>) @@
  "block_delay" :> RiskFactor(RZero, <<"material_delay", "manpower_shortage">>) @@
  "idle_time" :> RiskFactor(RZero, <<"material_delay", "block_delay">>)

ChainKeys == <<"material_delay", "manpower_shortage", "block_delay", "idle_time">>

\* A child whose CPT, assigned by a client, lacks two of its four rows.
PartialStructure ==
  "design_change" :> RiskFactor(Rat(15, 100), <<>>) @@
  "bad_weather" :> RiskFactor(Rat(20, 100), <<>>) @@
  "rework" :> RiskFactor(RZero, <<"design_change", "bad_weather">>)

PartialKeys == <<"design_change", "bad_weather", "rework">>

PartialCpt ==
  "rework" :> (<<TRUE, TRUE>> :> Rat(75, 100) @@ <<FALSE, TRUE>> :> Rat(30, 100))

\* A child that has parents and no CPT at all.
FallbackStructure ==
  "material_delay" :> RiskFactor(Rat(30, 100), <<>>) @@
  "manpower_shortage" :> RiskFactor(Rat(25, 100), <<>>) @@
  "delivery_slip" :> RiskFactor(RZero, <<"material_delay", "manpower_shortage">>)

FallbackKeys == <<"material_delay", "manpower_shortage", "delivery_slip">>

\* rework and material_waste cause each other; rework has one parent, so no
\* row of its built-in two-parent CPT matches.
CyclicStructure ==
  "design_change" :> RiskFactor(Rat(15, 100), <<>>) @@
  "rework" :> RiskFactor(RZero, <<"material_waste">>) @@
  "material_waste" :> RiskFactor(RZero, <<"rework", "design_change">>)

CyclicKeys == <<"design_change", "rework", "material_waste">>

\* block_delay names a parent that is no key of the structure: the RDF query
\* checks only that the child of a `causes` edge is registered.
DanglingStructure ==
  "material_delay" :> RiskFactor(Rat(30, 100), <<>>) @@
  "block_delay" :> RiskFactor(RZero, <<"material_delay", "manpower_shortage">>)

DanglingKeys == <<"material_delay", "block_delay">>

\* An id no structure registers, for calls that name an unknown factor.
GhostId == "labor_strike"

(***************************************************************************)
(* Layer 2: BayesianNetworkModel.                                          *)
(***************************************************************************)
\* set_evidence that also marks the parents of a factor that occurred
SetEvidenceWithCauses(ev, factor, occurred) ==
  LET causes == IF occurred /\ factor \in DOMAIN risk_structure
                  THEN {risk_structure[factor].parents[j] :
                          j \in 1..Len(risk_structure[factor].parents)}
                  ELSE {}
  IN [x \in DOMAIN ev \cup {factor} \cup causes |->
        IF x = factor THEN occurred
        ELSE IF x \in causes THEN TRUE ELSE ev[x]]

\* set_evidence that drops an id the risk structure does not hold
SetEvidenceIfRegistered(ev, factor, occurred) ==
  IF factor \in DOMAIN risk_structure
    THEN [x \in DOMAIN ev \cup {factor} |-> IF x = factor THEN occurred ELSE ev[x]]
    ELSE ev

\* set_evidence: self.evidence[factor] = occurred
set_evidence(ev, factor, occurred) ==
  [x \in DOMAIN ev \cup {factor} |-> IF x = factor THEN occurred ELSE ev[x]]

\* What a call of calculate_probability did: it returned `val`, or raised
\* `kind`; `evaluated` are the ids calculate_probability was entered for.
Returned(val, ids) == [kind |-> "value", val |-> val, evaluated |-> ids]
Raised(kind, ids) == [kind |-> kind, val |-> <<>>, evaluated |-> ids]

\* 1.0 if self.evidence[factor] else 0.0
EvidenceValue(occurred) == IF occurred THEN ROne ELSE RZero

\* RootProbability with the test `if self.evidence` in place of
\* `if factor in self.evidence`
RootProbabilityAnyEvidence(ev, risk, factor) ==
  IF DOMAIN ev # {}
    THEN EvidenceValue(factor \in DOMAIN ev /\ ev[factor])
    ELSE risk.probability

\* The root branch: the evidence if there is any, else the base probability
RootProbability(ev, risk, factor) ==
  IF factor \in DOMAIN ev
    THEN EvidenceValue(ev[factor])
    ELSE risk.probability

\* HasEvidence with the second evidence test left out
HasEvidenceNever(ev, factor) == FALSE

\* The test `factor in self.evidence` of a factor that has parents
HasEvidence(ev, factor) == factor \in DOMAIN ev

\* 1.0 - np.prod([1.0 - p for p in parent_probs])
RECURSIVE ProdComplement(_, _)
ProdComplement(parent_probs, j) ==
  IF j = 0 THEN ROne
  ELSE RMul(ProdComplement(parent_probs, j - 1), RSub(ROne, parent_probs[j]))

\* OrApproximation as 1.0 - np.prod(parent_probs)
RECURSIVE Prod(_, _)
Prod(parent_probs, j) ==
  IF j = 0 THEN ROne ELSE RMul(Prod(parent_probs, j - 1), parent_probs[j])

OrApproximationOfProduct(parent_probs) ==
  RSub(ROne, Prod(parent_probs, Len(parent_probs)))

OrApproximation(parent_probs) ==
  RSub(ROne, ProdComplement(parent_probs, Len(parent_probs)))

\* NumCombinations as range(2 ** len(risk.parents) - 1)
NumCombinationsShort(k) == 2 ^ k - 1

\* range(2 ** len(risk.parents)), as the number of combinations
NumCombinations(k) == 2 ^ k

\* tuple(bool(i & (1 << j)) for j in range(k)); position j + 1 here
ParentStates(i, k) == [j \in 1..k |-> (i \div (2 ^ (j - 1))) % 2 = 1]

\* CombinationProb multiplying by parent_prob whatever the state is
CombinationProbNoComplement(parent_probs, parent_states, j) ==
  Prod(parent_probs, j)

\* The inner loop: the product over zip(parents, parent_states) of
\* parent_prob if state else (1.0 - parent_prob), starting from 1.0
RECURSIVE CombinationProb(_, _, _)
CombinationProb(parent_probs, parent_states, j) ==
  IF j = 0 THEN ROne
  ELSE RMul(CombinationProb(parent_probs, parent_states, j - 1),
            IF parent_states[j] THEN parent_probs[j]
            ELSE RSub(ROne, parent_probs[j]))

\* Contribution looking the row up under the reversed tuple
ContributionReversedRow(table, parent_probs, i) ==
  LET k == Len(parent_probs)
      parent_states == ParentStates(i, k)
      row == [j \in 1..k |-> parent_states[k + 1 - j]]
  IN IF row \in DOMAIN table
       THEN RMul(CombinationProb(parent_probs, parent_states, k), table[row])
       ELSE RZero

\* Contribution with self.cpt[factor].get(parent_states, 1.0)
ContributionDefaultOne(table, parent_probs, i) ==
  LET parent_states == ParentStates(i, Len(parent_probs))
  IN RMul(CombinationProb(parent_probs, parent_states, Len(parent_probs)),
          IF parent_states \in DOMAIN table THEN table[parent_states]
          ELSE ROne)

\* One pass of the outer loop: what combination i adds to total_prob
Contribution(table, parent_probs, i) ==
  LET parent_states == ParentStates(i, Len(parent_probs))
  IN IF parent_states \in DOMAIN table
       THEN RMul(CombinationProb(parent_probs, parent_states, Len(parent_probs)),
                 table[parent_states])
       ELSE RZero

\* TotalProb with `total_prob = ...` in place of `total_prob += ...`: what
\* the last combination contributed
TotalProbAssigned(table, parent_probs, n) ==
  IF n = 0 THEN RZero ELSE Contribution(table, parent_probs, n - 1)

\* total_prob after the passes 0 .. n - 1 of the outer loop
RECURSIVE TotalProb(_, _, _)
TotalProb(table, parent_probs, n) ==
  IF n = 0 THEN RZero
  ELSE RAdd(TotalProb(table, parent_probs, n - 1),
            Contribution(table, parent_probs, n - 1))

\* self.risk_structure.get(factor, RiskFactor(factor, 0.0, [])): an id that
\* is no key is taken for a root that never occurs
LookupWithDefault(factor) ==
  IF factor \in DOMAIN risk_structure
    THEN [found |-> TRUE, risk |-> risk_structure[factor]]
    ELSE [found |-> TRUE, risk |-> RiskFactor(RZero, <<>>)]

\* risk = self.risk_structure[factor]: the entry, or KeyError when the id
\* is no key
Lookup(factor) ==
  IF factor \in DOMAIN risk_structure
    THEN [found |-> TRUE, risk |-> risk_structure[factor]]
    ELSE [found |-> FALSE]

\* calculate_probability(factor) under evidence `ev`, entered at stack depth
\* `depth`.  The loop calls calculate_probability(parent) again for every
\* combination; nothing is written between the calls, so each of them
\* returns what the call that filled parent_probs returned.
RECURSIVE calculate_probability(_, _, _)

\* ParentCalls as [self.calculate_probability(risk.parents[0]) for p in
\* risk.parents]: the first parent is evaluated for every parent
RECURSIVE ParentCallsOfFirst(_, _, _, _)
ParentCallsOfFirst(ev, parents, j, depth) ==
  IF j = 0 THEN <<>>
  ELSE LET earlier == ParentCallsOfFirst(ev, parents, j - 1, depth)
       IN IF earlier # <<>> /\ earlier[Len(earlier)].kind # "value"
            THEN earlier
            ELSE Append(earlier, calculate_probability(ev, parents[1], depth))

\* [self.calculate_probability(p) for p in risk.parents], its first j calls:
\* the comprehension ends at the first call that raises
RECURSIVE ParentCalls(_, _, _, _)
ParentCalls(ev, parents, j, depth) ==
  IF j = 0 THEN <<>>
  ELSE LET earlier == ParentCalls(ev, parents, j - 1, depth)
       IN IF earlier # <<>> /\ earlier[Len(earlier)].kind # "value"
            THEN earlier
            ELSE Append(earlier, calculate_probability(ev, parents[j], depth))

\* The ids a sequence of calls entered calculate_probability for
RECURSIVE Entered(_, _)
Entered(calls, j) ==
  IF j = 0 THEN {} ELSE Entered(calls, j - 1) \cup calls[j].evaluated

\* The values a sequence of calls returned
RECURSIVE Values(_, _)
Values(calls, j) ==
  IF j = 0 THEN <<>> ELSE Append(Values(calls, j - 1), calls[j].val)

calculate_probability(ev, factor, depth) ==
  IF depth > StackLimit THEN Raised("RecursionError", {})
  ELSE IF ~Lookup(factor).found THEN Raised("KeyError", {factor})
  ELSE
    LET risk == Lookup(factor).risk
        k == Len(risk.parents)
    IN
    IF k = 0 THEN Returned(RootProbability(ev, risk, factor), {factor})
    ELSE IF HasEvidence(ev, factor)
      THEN Returned(EvidenceValue(ev[factor]), {factor})
    ELSE
      LET calls == ParentCalls(ev, risk.parents, k, depth + 1)
          entered == {factor} \cup Entered(calls, Len(calls))
      IN
      IF calls[Len(calls)].kind # "value"
        THEN Raised(calls[Len(calls)].kind, entered)
      ELSE
        LET parent_probs == Values(calls, k)
        IN IF factor \notin DOMAIN cpt
             THEN Returned(OrApproximation(parent_probs), entered)
             ELSE Returned(TotalProb(cpt[factor], parent_probs,
                                     NumCombinations(k)),
                           entered)

\* {name: self.calculate_probability(name) for name in keys}, its first i
\* entries; a call that raises ends the comprehension
RECURSIVE AllCalls(_, _)
AllCalls(ev, i) ==
  IF i = 0 THEN [kind |-> "value", probs |-> <<>>]
  ELSE LET earlier == AllCalls(ev, i - 1)
           call == calculate_probability(ev, structure_keys[i], 1)
       IN IF earlier.kind # "value" THEN earlier
          ELSE IF call.kind # "value" THEN [kind |-> call.kind, probs |-> <<>>]
          ELSE [kind |-> "value",
                probs |-> earlier.probs @@ (structure_keys[i] :> call.val)]

get_all_probabilities(ev) == AllCalls(ev, Len(structure_keys))

(***************************************************************************)
(* Layer 2: MonteCarloSimulator.                                           *)
(***************************************************************************)
\* self.base_cost = 100.0
base_cost == Rat(100, 1)

\* d1.update(d2), also the dict a loop of d1[k] = v builds
Update(d1, d2) ==
  [key \in DOMAIN d1 \cup DOMAIN d2 |->
     IF key \in DOMAIN d2 THEN d2[key] ELSE d1[key]]

\* The iteration states one pass of the sampling loop can draw:
\* np.random.random() is in [0, 1), so `random() < prob` is False when
\* prob <= 0, True when prob >= 1, and either otherwise.
IterationStates(probs) ==
  {s \in [DOMAIN probs -> BOOLEAN] :
     \A f \in DOMAIN probs :
        /\ RLe(probs[f], RZero) => ~s[f]
        /\ RLe(ROne, probs[f]) => s[f]}

\* AdditionalCost without the test of iteration_state: every cost driver
\* is charged
AdditionalCostUnconditional(iteration_state, factor) ==
  RMul(cost_impacts[factor].base_cost,
       cost_impacts[factor].multiplier_if_triggered)

\* AdditionalCost that adds impact.base_cost without the multiplier
AdditionalCostUnscaled(iteration_state, factor) ==
  IF factor \in DOMAIN iteration_state /\ iteration_state[factor]
    THEN cost_impacts[factor].base_cost
    ELSE RZero

\* additional_cost of a cost driver, or 0.0 when it did not occur or is no
\* key of iteration_state
AdditionalCost(iteration_state, factor) ==
  IF factor \in DOMAIN iteration_state /\ iteration_state[factor]
    THEN RMul(cost_impacts[factor].base_cost,
              cost_impacts[factor].multiplier_if_triggered)
    ELSE RZero

\* TotalCost with `total_cost -= additional_cost`
RECURSIVE TotalCostSubtracting(_, _)
TotalCostSubtracting(iteration_state, drivers) ==
  IF drivers = {} THEN base_cost
  ELSE LET factor == CHOOSE f \in drivers : TRUE
       IN RSub(TotalCostSubtracting(iteration_state, drivers \ {factor}),
               AdditionalCost(iteration_state, factor))

\* total_cost after the loop over the cost impacts in `drivers`
RECURSIVE TotalCost(_, _)
TotalCost(iteration_state, drivers) ==
  IF drivers = {} THEN base_cost
  ELSE LET factor == CHOOSE f \in drivers : TRUE
       IN RAdd(TotalCost(iteration_state, drivers \ {factor}),
               AdditionalCost(iteration_state, factor))

\* The values of a row are Python objects of two types; a key holds one
\* object, and a later assignment to the key replaces the earlier object
Float(r) == [float |-> r]
Bool(b) == [bool |-> b]

\* The record one iteration appends: cost_breakdown, after
\* cost_breakdown.update(iteration_state)
CostBreakdown(iteration_state) ==
  LET costs == [factor \in DOMAIN cost_impacts |->
                  Float(AdditionalCost(iteration_state, factor))]
      total == "total" :> Float(TotalCost(iteration_state, DOMAIN cost_impacts))
      states == [factor \in DOMAIN iteration_state |->
                   Bool(iteration_state[factor])]
  IN Update(Update(Update("base" :> Float(base_cost), costs), total), states)

\* Draws for `np.random.random() <= prob`: a draw of 0.0 passes when prob
\* is 0
DrawsInclusive(prob) ==
  IF RLt(prob, RZero) THEN {FALSE}
  ELSE IF RLe(ROne, prob) THEN {TRUE}
  ELSE BOOLEAN

\* The outcomes `np.random.random() < prob` can have
Draws(prob) ==
  IF RLe(prob, RZero) THEN {FALSE}
  ELSE IF RLe(ROne, prob) THEN {TRUE}
  ELSE BOOLEAN

\* prob = self.bayesian_model.calculate_probability(factor) conditioned on
\* the outcomes already drawn in this iteration, as ancestral sampling does
SamplingCallAncestral(ev, iteration_state, factor) ==
  calculate_probability(Update(ev, iteration_state), factor, 1)

\* prob = self.bayesian_model.calculate_probability(factor) inside the
\* sampling loop: the call reads self.evidence, and the iteration_state
\* filled so far is no argument of it
SamplingCall(ev, iteration_state, factor) ==
  calculate_probability(ev, factor, 1)

\* The sampling loop over the first j keys of risk_structure: every
\* iteration_state it can have filled, with the prob used for each factor,
\* or the error the first failing calculate_probability raised
RECURSIVE SampleFactors(_, _)
SampleFactors(ev, j) ==
  IF j = 0
    THEN {[kind |-> "value", iteration_state |-> <<>>, probs |-> <<>>]}
  ELSE UNION {
    IF e.kind # "value" THEN {e}
    ELSE LET factor == structure_keys[j]
             call == SamplingCall(ev, e.iteration_state, factor)
         IN IF call.kind # "value"
              THEN {[kind |-> call.kind,
                     iteration_state |-> e.iteration_state,
                     probs |-> e.probs]}
              ELSE {[kind |-> "value",
                     iteration_state |-> e.iteration_state @@ (factor :> b),
                     probs |-> e.probs @@ (factor :> call.val)] :
                      b \in Draws(call.val)}
    : e \in SampleFactors(ev, j - 1)}

\* for i in range(n_iterations), after its first i iterations: the rows
\* appended to `results`, and `used`, the prob of every factor in each
\* iteration; an exception leaves the loop and the method
RECURSIVE SimulationLoop(_, _)
SimulationLoop(ev, i) ==
  IF i <= 0 THEN {[kind |-> "value", results |-> <<>>, used |-> <<>>]}
  ELSE UNION {
    IF r.kind # "value" THEN {r}
    ELSE {IF it.kind # "value"
            THEN [kind |-> it.kind, results |-> <<>>, used |-> r.used]
            ELSE [kind |-> "value",
                  results |-> Append(r.results, CostBreakdown(it.iteration_state)),
                  used |-> Append(r.used, it.probs)] :
            it \in SampleFactors(ev, Len(structure_keys))}
    : r \in SimulationLoop(ev, i - 1)}

\* run_simulation that also records the first factor's sampled outcome as
\* evidence
RunSimulationRecordsOutcome(ev, n_iterations) ==
  {[kind |-> r.kind, results |-> r.results, used |-> r.used,
    after |-> IF r.results = <<>> THEN ev
              ELSE set_evidence(ev, structure_keys[1],
                                r.results[1][structure_keys[1]].bool)] :
     r \in SimulationLoop(ev, n_iterations)}

\* run_simulation with range(1, n_iterations) for the loop
RunSimulationFromOne(ev, n_iterations) ==
  {[kind |-> r.kind, results |-> r.results, used |-> r.used, after |-> ev] :
     r \in SimulationLoop(ev, n_iterations - 1)}

\* run_simulation(n_iterations) called with evidence `ev`: every way it can
\* end.  `results` are the rows of the DataFrame returned, in the order they
\* were appended; `after` is self.bayesian_model.evidence when the call is
\* left.  range(n_iterations) is empty for n_iterations <= 0.
run_simulation(ev, n_iterations) ==
  {[kind |-> r.kind, results |-> r.results, used |-> r.used, after |-> ev] :
     r \in SimulationLoop(ev, n_iterations)}

\* results['total'] as a list
RECURSIVE TotalCosts(_, _)
TotalCosts(results, i) ==
  IF i = 0 THEN <<>> ELSE Append(TotalCosts(results, i - 1), results[i]["total"].float)

\* `sorted` with x put in its place
RECURSIVE Insert(_, _)
Insert(sorted, x) ==
  IF sorted = <<>> THEN <<x>>
  ELSE IF RLe(x, sorted[1]) THEN <<x>> \o sorted
  ELSE <<sorted[1]>> \o Insert(Tail(sorted), x)

\* The values in ascending order, as quantile and median arrange them
RECURSIVE Sorted(_, _)
Sorted(values, i) ==
  IF i = 0 THEN <<>> ELSE Insert(Sorted(values, i - 1), values[i])

RECURSIVE Sum(_, _)
Sum(values, i) ==
  IF i = 0 THEN RZero ELSE RAdd(Sum(values, i - 1), values[i])

\* Series.mean()
Mean(values) == RMul(Sum(values, Len(values)), Rat(1, Len(values)))

\* Series.quantile(q) that takes the lower neighbour instead of interpolating
QuantileLower(values, q) ==
  LET sorted == Sorted(values, Len(values))
      lower == (q[1] * (Len(values) - 1)) \div q[2]
  IN sorted[lower + 1]

\* Series.quantile(q), q = <<a, b>>, with pandas' default linear
\* interpolation: position q * (n - 1) among the sorted values, the value
\* there or between its two neighbours
Quantile(values, q) ==
  LET sorted == Sorted(values, Len(values))
      n == Len(values)
      lower == (q[1] * (n - 1)) \div q[2]
      fraction == Rat((q[1] * (n - 1)) % q[2], q[2])
  IN IF fraction = RZero THEN sorted[lower + 1]
     ELSE RAdd(sorted[lower + 1],
               RMul(fraction, RSub(sorted[lower + 2], sorted[lower + 1])))

\* Series.median(): the middle value, or the mean of the two middle values
Median(values) ==
  LET sorted == Sorted(values, Len(values))
      n == Len(values)
  IN IF n % 2 = 1 THEN sorted[(n + 1) \div 2]
     ELSE RMul(RAdd(sorted[n \div 2], sorted[n \div 2 + 1]), Rat(1, 2))

\* (total_costs < threshold).mean(): the comparison turned round
FractionBelow(values, threshold) ==
  Rat(Cardinality({i \in 1..Len(values) : RLt(values[i], threshold)}),
      Len(values))

\* (total_costs > threshold).mean()
FractionOver(values, threshold) ==
  Rat(Cardinality({i \in 1..Len(values) : RLt(threshold, values[i])}),
      Len(values))

\* analyze_results(results).  A DataFrame built from no rows has no 'total'
\* column, so results['total'] raises KeyError.  std_cost, the square root
\* of the sample variance, is no rational and is left out of the dict.
analyze_results(results) ==
  IF results = <<>> THEN [kind |-> "KeyError"]
  ELSE
    LET total_costs == TotalCosts(results, Len(results))
    IN [kind |-> "value",
        mean_cost |-> Mean(total_costs),
        median_cost |-> Median(total_costs),
        percentile_10 |-> Quantile(total_costs, <<10, 100>>),
        percentile_50 |-> Quantile(total_costs, <<50, 100>>),
        percentile_90 |-> Quantile(total_costs, <<90, 100>>),
        percentile_95 |-> Quantile(total_costs, <<95, 100>>),
        prob_over_budget |->
          FractionOver(total_costs, RMul(base_cost, Rat(11, 10))),
        prob_over_budget_20 |->
          FractionOver(total_costs, RMul(base_cost, Rat(12, 10)))]

(***************************************************************************)
(* Layer 3: DecisionSupportSystem.                                         *)
(***************************************************************************)
\* ApplyEvents with self.evidence.setdefault(factor, occurred): an entry
\* already there is kept
RECURSIVE ApplyEventsKeepingExisting(_, _, _)
ApplyEventsKeepingExisting(ev, events, todo) ==
  IF todo = {} THEN ev
  ELSE LET factor == CHOOSE f \in todo : TRUE
       IN ApplyEventsKeepingExisting(
            IF factor \in DOMAIN ev THEN ev
            ELSE set_evidence(ev, factor, events[factor]),
            events, todo \ {factor})

\* for factor, occurred in events.items(): set_evidence(factor, occurred)
RECURSIVE ApplyEvents(_, _, _)
ApplyEvents(ev, events, todo) ==
  IF todo = {} THEN ev
  ELSE LET factor == CHOOSE f \in todo : TRUE
       IN ApplyEvents(set_evidence(ev, factor, events[factor]), events,
                      todo \ {factor})

\* what_if_analysis with original_evidence = self.bayesian_model.evidence
\* (no copy): the dict restored is the dict the scenario was written to
WhatIfAnalysisAliased(ev, events) ==
  LET scenario == ApplyEvents(ev, events, DOMAIN events)
      current_risk == get_all_probabilities(scenario)
  IN IF current_risk.kind # "value"
       THEN {[kind |-> current_risk.kind, after |-> scenario,
              during |-> scenario, results |-> <<>>]}
       ELSE {[kind |-> sim.kind, after |-> scenario,
              during |-> scenario, results |-> sim.results] :
                sim \in run_simulation(scenario, WhatIfIterations)}

\* what_if_analysis(events) called with evidence `ev`: every way it can end.
\* analyze_current_risk is get_all_probabilities and printing;
\* run_cost_simulation is run_simulation, then analyze_results and printing,
\* which read the rows and write nothing.
\* `after` is self.bayesian_model.evidence when the call is left, `during`
\* the evidence the analysis and the simulation ran under.
what_if_analysis(ev, events) ==
  LET original_evidence == ev
      scenario == ApplyEvents(ev, events, DOMAIN events)
      current_risk == get_all_probabilities(scenario)
  IN IF current_risk.kind # "value"
       THEN {[kind |-> current_risk.kind, after |-> scenario,
              during |-> scenario, results |-> <<>>]}
       ELSE {[kind |-> sim.kind,
              after |-> IF sim.kind = "value" THEN original_evidence
                        ELSE scenario,
              during |-> scenario, results |-> sim.results] :
                sim \in run_simulation(scenario, WhatIfIterations)}

(***************************************************************************)
(* The state machine: a client calling the public methods one at a time.   *)
(***************************************************************************)
EmptyDict == [x \in {} |-> TRUE]

NoCall == [op |-> "none"]

\* The ids calls are made with: the registered ones and an unregistered one
\* (four of the built-in sample's ten, to keep its evidence maps few)
ObservedIds ==
  IF risk_structure = SampleStructure
    THEN {"material_delay", "manpower_shortage", "block_delay", GhostId}
    ELSE DOMAIN risk_structure \cup {GhostId} \cup
         UNION {{risk_structure[f].parents[j] :
                   j \in 1..Len(risk_structure[f].parents)} :
                f \in DOMAIN risk_structure}

\* The keys of the `events` dicts: the first and the last registered id and
\* the unregistered one
ScenarioIds ==
  {structure_keys[1], structure_keys[Len(structure_keys)], GhostId}

EventDicts ==
  UNION {[keys -> BOOLEAN] :
           keys \in {k \in SUBSET ScenarioIds : Cardinality(k) <= MaxEvents}}

\* The ontologies a system is built from: the cost table is the built-in
\* one, or the one read from the ontology file
Structures ==
  { [risk_structure |-> ChainStructure, keys |-> ChainKeys, cpt |-> InitialCpt,
     cost_impacts |-> RdfCostImpacts],
    [risk_structure |-> PartialStructure, keys |-> PartialKeys, cpt |-> PartialCpt,
     cost_impacts |-> SampleCostImpacts],
    [risk_structure |-> FallbackStructure, keys |-> FallbackKeys, cpt |-> InitialCpt,
     cost_impacts |-> SampleCostImpacts],
    [risk_structure |-> CyclicStructure, keys |-> CyclicKeys, cpt |-> InitialCpt,
     cost_impacts |-> SampleCostImpacts],
    [risk_structure |-> DanglingStructure, keys |-> DanglingKeys, cpt |-> InitialCpt,
     cost_impacts |-> SampleCostImpacts] }

Init ==
  /\ \E s \in Structures :
       /\ risk_structure = s.risk_structure
       /\ structure_keys = s.keys
       /\ cpt = s.cpt
       /\ cost_impacts = s.cost_impacts
  /\ evidence = EmptyDict
  /\ ret = NoCall

InitSample ==
  /\ risk_structure = SampleStructure
  /\ structure_keys = SampleKeys
  /\ cpt = InitialCpt
  /\ cost_impacts = SampleCostImpacts
  /\ evidence = EmptyDict
  /\ ret = NoCall

Frame == UNCHANGED <<risk_structure, structure_keys, cpt, cost_impacts>>

SetEvidence(factor, occurred) ==
  /\ ret = NoCall
  /\ evidence' = set_evidence(evidence, factor, occurred)
  /\ ret' = [op |-> "set_evidence", factor |-> factor, occurred |-> occurred]
  /\ Frame

UpdateStatus(events) ==
  /\ ret = NoCall
  /\ evidence' = ApplyEvents(evidence, events, DOMAIN events)
  /\ ret' = [op |-> "update_status", events |-> events]
  /\ Frame

\* CalculateProbability answering from values kept since the first pass,
\* which ran before any evidence was set
CalculateProbabilityFromFirstPass(factor) ==
  /\ ret = NoCall
  /\ ret' = [op |-> "calculate_probability", factor |-> factor,
             before |-> evidence,
             result |-> calculate_probability(EmptyDict, factor, 1)]
  /\ UNCHANGED evidence
  /\ Frame

\* CalculateProbability keeping a certain result as evidence of the factor
CalculateProbabilityKeepsResult(factor) ==
  LET result == calculate_probability(evidence, factor, 1)
  IN /\ ret = NoCall
     /\ ret' = [op |-> "calculate_probability", factor |-> factor,
                before |-> evidence, result |-> result]
     /\ evidence' = IF result.kind = "value" /\ result.val \in {RZero, ROne}
                      THEN set_evidence(evidence, factor, result.val = ROne)
                      ELSE evidence
     /\ Frame

CalculateProbability(factor) ==
  /\ ret = NoCall
  /\ ret' = [op |-> "calculate_probability", factor |-> factor,
             before |-> evidence,
             result |-> calculate_probability(evidence, factor, 1)]
  /\ UNCHANGED evidence
  /\ Frame

GetAllProbabilities ==
  /\ ret = NoCall
  /\ ret' = [op |-> "get_all_probabilities", before |-> evidence,
             result |-> get_all_probabilities(evidence)]
  /\ UNCHANGED evidence
  /\ Frame

WhatIfAnalysis(events) ==
  /\ ret = NoCall
  /\ \E end \in what_if_analysis(evidence, events) :
       /\ evidence' = end.after
       /\ ret' = [op |-> "what_if_analysis", events |-> events,
                  before |-> evidence, kind |-> end.kind,
                  during |-> end.during, results |-> end.results]
  /\ Frame

\* The n_iterations clients pass
IterationCounts == -1..MaxIterations

RunSimulation(n_iterations) ==
  /\ ret = NoCall
  /\ \E end \in run_simulation(evidence, n_iterations) :
       /\ evidence' = end.after
       /\ ret' = [op |-> "run_simulation", n_iterations |-> n_iterations,
                  before |-> evidence, kind |-> end.kind,
                  results |-> end.results, used |-> end.used]
  /\ Frame

\* run_cost_simulation's second step: the frame run_simulation returned is
\* handed to analyze_results
AnalyzeResults ==
  /\ ret.op = "run_simulation"
  /\ ret.kind = "value"
  /\ ret' = [op |-> "analyze_results", results |-> ret.results,
             analysis |-> analyze_results(ret.results)]
  /\ UNCHANGED evidence
  /\ Frame

\* The caller takes what the call returned (or catches what it raised) and
\* goes on to its next call.
CallerContinues ==
  /\ ret # NoCall
  /\ ret' = NoCall
  /\ UNCHANGED evidence
  /\ Frame

Next ==
  \/ \E factor \in ObservedIds, occurred \in BOOLEAN : SetEvidence(factor, occurred)
  \/ \E events \in EventDicts : UpdateStatus(events)
  \/ \E factor \in ObservedIds : CalculateProbability(factor)
  \/ GetAllProbabilities
  \/ \E events \in EventDicts : WhatIfAnalysis(events)
  \/ \E n_iterations \in IterationCounts : RunSimulation(n_iterations)
  \/ AnalyzeResults
  \/ CallerContinues

Spec == Init /\ [][Next]_vars

\* The built-in sample is simulated one iteration at a time: the rows of a
\* run are drawn alike
SampleIterationCounts == {1}

NextSample ==
  \/ \E factor \in ObservedIds, occurred \in BOOLEAN : SetEvidence(factor, occurred)
  \/ \E factor \in DOMAIN risk_structure \cup {GhostId} : CalculateProbability(factor)
  \/ GetAllProbabilities
  \/ \E n_iterations \in SampleIterationCounts : RunSimulation(n_iterations)
  \/ AnalyzeResults
  \/ CallerContinues

SpecSample == InitSample /\ [][NextSample]_vars

(***************************************************************************)
(* Vocabulary of the properties.                                           *)
(***************************************************************************)
Registered(factor) == factor \in DOMAIN risk_structure

ParentsOf(factor) ==
  IF Registered(factor)
    THEN {risk_structure[factor].parents[j] :
            j \in 1..Len(risk_structure[factor].parents)}
    ELSE {}

\* The ids reached from `factor` along at most n parent edges, n >= 1
RECURSIVE AncestorsWithin(_, _)
AncestorsWithin(factor, n) ==
  IF n = 0 THEN {}
  ELSE ParentsOf(factor) \cup
       UNION {AncestorsWithin(p, n - 1) : p \in ParentsOf(factor)}

Ancestors(factor) ==
  AncestorsWithin(factor, Cardinality(DOMAIN risk_structure) + 1)

OnCycle(factor) == factor \in Ancestors(factor)

OnOrBelowCycle(factor) ==
  OnCycle(factor) \/ \E a \in Ancestors(factor) : OnCycle(a)

\* Every parent id is registered and no factor is its own ancestor
WellFormed ==
  \A f \in DOMAIN risk_structure :
     ParentsOf(f) \subseteq DOMAIN risk_structure /\ ~OnCycle(f)

InUnitInterval(p) == RLe(RZero, p) /\ RLe(p, ROne)

CalcDone == ret.op = "calculate_probability"

\* The last call was calculate_probability of a registered factor that has
\* parents and no evidence, and each parent's own calculation under the same
\* evidence returns a value
CalcFromParents ==
  /\ CalcDone
  /\ Registered(ret.factor)
  /\ risk_structure[ret.factor].parents # <<>>
  /\ ret.factor \notin DOMAIN ret.before
  /\ \A p \in ParentsOf(ret.factor) :
        calculate_probability(ret.before, p, 1).kind = "value"

\* p(parent j) of the factor of the last call
ParentProb(j) ==
  calculate_probability(ret.before, risk_structure[ret.factor].parents[j], 1).val

\* The product over the positions in `js` of p(parent j) where `states`
\* marks j true and of 1 - p(parent j) where it marks j false
RECURSIVE Weight(_, _)
Weight(states, js) ==
  IF js = {} THEN ROne
  ELSE LET j == CHOOSE x \in js : TRUE
       IN RMul(IF states[j] THEN ParentProb(j) ELSE RSub(ROne, ParentProb(j)),
               Weight(states, js \ {j}))

\* The sum over the combinations in `combos` of weight times CPT entry
RECURSIVE WeightedSum(_, _)
WeightedSum(combos, table) ==
  IF combos = {} THEN RZero
  ELSE LET states == CHOOSE x \in combos : TRUE
       IN RAdd(RMul(Weight(states, DOMAIN states), table[states]),
               WeightedSum(combos \ {states}, table))

\* All ordered truth combinations of k parents
Combinations(k) == [1..k -> BOOLEAN]

NumParents == Len(risk_structure[ret.factor].parents)

(***************************************************************************)
(* Properties.                                                             *)
(***************************************************************************)
WhatIfDone == ret.op = "what_if_analysis"

\* C1: when what_if_analysis(events) returns normally, the evidence map is
\* the map held before the call: keys the events added are gone and keys
\* they overrode have their earlier values.
C1_WhatIfRestoresEvidence ==
  (WhatIfDone /\ ret.kind = "value") => evidence = ret.before

\* A what-if that returned after adding one key and overriding another
C1_Witness ==
  /\ WhatIfDone
  /\ ret.kind = "value"
  /\ \E f \in DOMAIN ret.events : f \notin DOMAIN ret.before
  /\ \E f \in DOMAIN ret.events \cap DOMAIN ret.before :
        ret.events[f] # ret.before[f]
  /\ ret.during # ret.before
  /\ Len(ret.results) = WhatIfIterations

\* C2: when what_if_analysis(events) fails after the overrides were applied,
\* the evidence map is still the map held before the call.
C2_WhatIfRestoresOnFailure ==
  (WhatIfDone /\ ret.kind # "value") => evidence = ret.before

\* C3: a factor that has an evidence entry has probability exactly 1.0 or
\* 0.0 as the entry says, root or not, and calculate_probability is entered
\* for no other factor: neither its parents nor its CPT are evaluated.
C3_EvidenceShortCircuits ==
  (CalcDone /\ Registered(ret.factor) /\ ret.factor \in DOMAIN ret.before)
    => ret.result = Returned(IF ret.before[ret.factor] THEN ROne ELSE RZero,
                             {ret.factor})

\* A factor under evidence one of whose parents cannot be evaluated at all
C3_Witness ==
  /\ CalcDone
  /\ Registered(ret.factor)
  /\ ret.factor \in DOMAIN ret.before
  /\ ret.result.kind = "value"
  /\ \E p \in ParentsOf(ret.factor) :
        calculate_probability(ret.before, p, 1).kind # "value"

\* C4: for a factor with k parents, a CPT holding all 2^k rows and no
\* evidence, calculate_probability returns the sum over all 2^k ordered
\* truth combinations of the product of p(parent) or 1 - p(parent), as the
\* combination marks the parent, times the CPT row of the combination.
C4_MarginalIsWeightedSum ==
  (/\ CalcFromParents
   /\ ret.factor \in DOMAIN cpt
   /\ Combinations(NumParents) \subseteq DOMAIN cpt[ret.factor])
    => /\ ret.result.kind = "value"
       /\ ret.result.val =
            WeightedSum(Combinations(NumParents), cpt[ret.factor])

\* The grandchild idle_time computed from a parent that is itself computed
C4_Witness ==
  /\ CalcFromParents
  /\ ret.factor \in DOMAIN cpt
  /\ Combinations(NumParents) \subseteq DOMAIN cpt[ret.factor]
  /\ \E p \in ParentsOf(ret.factor) :
        risk_structure[p].parents # <<>> /\ p \notin DOMAIN ret.before
  /\ ret.result.val \notin {RZero, ROne}

C6_RootReturnsBaseProbability ==
  (/\ CalcDone
   /\ Registered(ret.factor)
   /\ risk_structure[ret.factor].parents = <<>>
   /\ ret.factor \notin DOMAIN ret.before)
    => ret.result =
         Returned(risk_structure[ret.factor].probability, {ret.factor})

\* A root queried while other factors have evidence
C6_Witness ==
  /\ CalcDone
  /\ Registered(ret.factor)
  /\ risk_structure[ret.factor].parents = <<>>
  /\ ret.factor \notin DOMAIN ret.before
  /\ \E f \in DOMAIN ret.before : Registered(f)
  /\ ret.result.val = risk_structure[ret.factor].probability

\* C7: in the built-in sample graph without evidence, block_delay (roots at
\* 0.30 and 0.25, CPT 0.85 / 0.60 / 0.55 / 0.10) has probability 0.3475.
C7_BlockDelayMarginal ==
  (/\ CalcDone
   /\ risk_structure = SampleStructure
   /\ ret.factor = "block_delay"
   /\ ret.before = EmptyDict)
    => /\ ret.result.kind = "value"
       /\ ret.result.val = Rat(3475, 10000)

\* block_delay queried in the sample graph before any evidence is set
C7_Witness ==
  /\ CalcDone
  /\ risk_structure = SampleStructure
  /\ cpt = InitialCpt
  /\ ret.factor = "block_delay"
  /\ ret.before = EmptyDict
  /\ calculate_probability(ret.before, "material_delay", 1).val = Rat(30, 100)
  /\ calculate_probability(ret.before, "manpower_shortage", 1).val = Rat(25, 100)
  /\ ret.result.kind = "value"

\* The rows of `table` that are truth combinations of k parents
PresentRows(table, k) == {states \in Combinations(k) : states \in DOMAIN table}

\* C8: when the CPT of a factor lacks the row of some parent combination,
\* calculate_probability does not fail: it returns the sum over the rows
\* that are present, the missing combinations adding nothing.
C8_MissingRowsContributeZero ==
  (/\ CalcFromParents
   /\ ret.factor \in DOMAIN cpt
   /\ PresentRows(cpt[ret.factor], NumParents) # Combinations(NumParents))
    => /\ ret.result.kind = "value"
       /\ ret.result.val =
            WeightedSum(PresentRows(cpt[ret.factor], NumParents),
                        cpt[ret.factor])

\* A CPT with some rows present and some missing, and a nonzero sum
C8_Witness ==
  /\ CalcFromParents
  /\ ret.factor \in DOMAIN cpt
  /\ PresentRows(cpt[ret.factor], NumParents) # Combinations(NumParents)
  /\ PresentRows(cpt[ret.factor], NumParents) # {}
  /\ ret.result.kind = "value"
  /\ ret.result.val # RZero

\* The product over the parents at positions `js` of 1 - p(parent)
RECURSIVE ComplementProduct(_)
ComplementProduct(js) ==
  IF js = {} THEN ROne
  ELSE LET j == CHOOSE x \in js : TRUE
       IN RMul(RSub(ROne, ParentProb(j)), ComplementProduct(js \ {j}))

\* C9: a factor with parents, no evidence and no CPT at all gets 1 minus
\* the product over its parents of 1 - p(parent).
C9_NoCptIsProbabilisticOr ==
  (CalcFromParents /\ ret.factor \notin DOMAIN cpt)
    => /\ ret.result.kind = "value"
       /\ ret.result.val = RSub(ROne, ComplementProduct(1..NumParents))

\* A CPT-less factor whose parents are neither certain nor impossible
C9_Witness ==
  /\ CalcFromParents
  /\ ret.factor \notin DOMAIN cpt
  /\ NumParents = 2
  /\ \A j \in 1..NumParents : ParentProb(j) \notin {RZero, ROne}
  /\ ret.result.kind = "value"

\* C10: evaluating a factor that is on a cycle of the parent relation, or
\* below one, fails (with a CyclicGraph error, on detecting the revisit) and
\* returns no probability.  Stated here in the claim's favour: any failure
\* counts, whatever the error is called, and a factor that has evidence
\* itself (whose parents are not looked at) is left aside.
C10_CycleReturnsNoProbability ==
  (/\ CalcDone
   /\ OnOrBelowCycle(ret.factor)
   /\ ret.factor \notin DOMAIN ret.before)
    => ret.result.kind # "value"

\* C11: calculate_probability of an id that is no key of the risk structure,
\* asked for directly or entered as a parent of a registered factor, raises
\* the lookup's KeyError (the code's error for an unknown factor) and
\* returns no probability.
C11_UnregisteredIdFails ==
  (/\ CalcDone
   /\ \/ ~Registered(ret.factor)
      \/ ret.result.evaluated \ DOMAIN risk_structure # {})
    => (ret.result.kind = "KeyError" /\ ret.result.val = <<>>)

\* A registered factor whose calculation entered an unregistered parent
C11_Witness ==
  /\ CalcDone
  /\ Registered(ret.factor)
  /\ ret.result.evaluated \ DOMAIN risk_structure # {}
  /\ ret.result.kind = "KeyError"

RunDone == ret.op = "run_simulation"

\* The occurrence row i of the returned frame holds for `factor`
Occurred(i, factor) == ret.results[i][factor].bool

\* C12: run_simulation(n) with n <= 0 fails; it does not return an empty
\* result.  Stated with any error in place of InvalidConfiguration.
C12_NonPositiveIterationsFail ==
  (RunDone /\ ret.n_iterations <= 0) => ret.kind # "value"

\* C13: run_simulation(n) that returns for a positive n returns exactly n
\* rows, row i being the one iteration i appended: it holds a total and an
\* occurrence of every registered factor that iteration i's probabilities
\* allow.
C13_ReturnsNSamples ==
  (RunDone /\ ret.n_iterations > 0 /\ ret.kind = "value")
    => /\ Len(ret.results) = ret.n_iterations
       /\ Len(ret.used) = ret.n_iterations
       /\ \A i \in 1..ret.n_iterations :
            /\ "total" \in DOMAIN ret.results[i]
            /\ \A f \in DOMAIN risk_structure :
                 Occurred(i, f) \in Draws(ret.used[i][f])

\* A run of the largest n whose rows differ
C13_Witness ==
  /\ RunDone
  /\ ret.kind = "value"
  /\ ret.n_iterations = MaxIterations
  /\ Len(ret.results) = MaxIterations
  /\ ret.results[1] # ret.results[MaxIterations]

\* The cost drivers row i marks as occurred: the entries of the cost table
\* that are registered factors and were sampled true
OccurredDrivers(i) ==
  {f \in DOMAIN cost_impacts \cap DOMAIN risk_structure : Occurred(i, f)}

\* The sum of base_cost x multiplier over the cost drivers in `drivers`
RECURSIVE SumOfImpacts(_)
SumOfImpacts(drivers) ==
  IF drivers = {} THEN RZero
  ELSE LET f == CHOOSE x \in drivers : TRUE
       IN RAdd(RMul(cost_impacts[f].base_cost,
                    cost_impacts[f].multiplier_if_triggered),
               SumOfImpacts(drivers \ {f}))

\* C14: in every row run_simulation returns, the total is the baseline 100
\* plus the sum of base_cost x multiplier over exactly the cost drivers
\* sampled true; other factors and cost drivers that did not occur add 0.
C14_TotalIsBaselinePlusOccurredImpacts ==
  (RunDone /\ ret.kind = "value")
    => \A i \in 1..Len(ret.results) :
         ret.results[i]["total"].float =
           RAdd(Rat(100, 1), SumOfImpacts(OccurredDrivers(i)))

\* A row where one cost driver occurred, another did not, a factor without
\* a cost entry occurred, and the cost table names an unregistered id
C14_Witness ==
  /\ RunDone
  /\ ret.kind = "value"
  /\ \E i \in 1..Len(ret.results) :
       /\ \E f, g \in DOMAIN cost_impacts \cap DOMAIN risk_structure :
            Occurred(i, f) /\ ~Occurred(i, g)
       /\ \E h \in DOMAIN risk_structure \ DOMAIN cost_impacts : Occurred(i, h)
       /\ RLt(Rat(100, 1), ret.results[i]["total"].float)
  /\ DOMAIN cost_impacts \ DOMAIN risk_structure # {}

\* C15: every row of a simulation, run directly or inside a what-if, under
\* any evidence and any outcome of the draws, has a total of at least the
\* baseline cost.
C15_TotalAtLeastBaseline ==
  ((RunDone \/ WhatIfDone) /\ ret.kind = "value")
    => \A i \in 1..Len(ret.results) :
         RLe(base_cost, ret.results[i]["total"].float)

\* A run under evidence with a row at the baseline and a row above it
C15_Witness ==
  /\ RunDone
  /\ ret.kind = "value"
  /\ DOMAIN ret.before # {}
  /\ \E i, j \in 1..Len(ret.results) :
       /\ ret.results[i]["total"].float = base_cost
       /\ RLt(base_cost, ret.results[j]["total"].float)

\* C16: every row carries, for every cost driver that is a registered
\* factor, its cost contribution under the driver's key: base_cost x
\* multiplier, or 0.
C16_RowCarriesContribution ==
  (RunDone /\ ret.kind = "value")
    => \A i \in 1..Len(ret.results) :
         \A f \in DOMAIN cost_impacts \cap DOMAIN risk_structure :
            \E occurred \in BOOLEAN :
               ret.results[i][f] =
                 Float(IF occurred THEN SumOfImpacts({f}) ELSE RZero)

AnalysisDone == ret.op = "analyze_results" /\ ret.analysis.kind = "value"

\* The number of rows of the analysed frame whose total exceeds `threshold`
NumOver(threshold) ==
  Cardinality({i \in 1..Len(ret.results) :
                 RLt(threshold, ret.results[i]["total"].float)})

\* C17: for a non-empty frame, analyze_results gives prob_over_budget the
\* fraction of rows whose total strictly exceeds 110 (baseline x 1.10),
\* prob_over_budget_20 the fraction strictly exceeding 120 (baseline x 1.20),
\* and prob_over_budget_20 <= prob_over_budget.
C17_StricterThresholdNotMoreFrequent ==
  AnalysisDone
    => /\ RLe(ret.analysis.prob_over_budget_20, ret.analysis.prob_over_budget)
       /\ ret.analysis.prob_over_budget =
            Rat(NumOver(Rat(110, 1)), Len(ret.results))
       /\ ret.analysis.prob_over_budget_20 =
            Rat(NumOver(Rat(120, 1)), Len(ret.results))

\* A frame with a row over 120 and a row between 110 and 120
C17_Witness ==
  /\ AnalysisDone
  /\ RLt(RZero, ret.analysis.prob_over_budget_20)
  /\ RLt(ret.analysis.prob_over_budget_20, ret.analysis.prob_over_budget)

\* C18: a step that is a call of run_simulation leaves the evidence map, the
\* risk structure, the CPT and the cost table as they were, and every
\* iteration of the run used, for every factor, the probability
\* calculate_probability gives under the evidence held before the call.
C18_RunLeavesModelUnchanged ==
  [][(ret.op = "none" /\ ret'.op = "run_simulation")
       => /\ evidence' = evidence
          /\ risk_structure' = risk_structure
          /\ structure_keys' = structure_keys
          /\ cpt' = cpt
          /\ cost_impacts' = cost_impacts
          /\ \A i \in 1..Len(ret'.used) :
               /\ DOMAIN ret'.used[i] \subseteq DOMAIN risk_structure
               /\ \A f \in DOMAIN ret'.used[i] :
                    ret'.used[i][f] = calculate_probability(evidence, f, 1).val
               /\ ret'.used[i] = ret'.used[1]]_vars

\* A run of two or more iterations under evidence in which a factor
\* without evidence was sampled true
C18_Witness ==
  /\ RunDone
  /\ ret.kind = "value"
  /\ Len(ret.results) >= 2
  /\ DOMAIN evidence # {}
  /\ evidence = ret.before
  /\ \E f \in DOMAIN risk_structure \ DOMAIN evidence : Occurred(1, f)

\* The evidence before the run extended by what row i sampled for the
\* parents of `factor`
WithSampledParents(i, factor) ==
  Update(ret.before, [p \in ParentsOf(factor) |-> Occurred(i, p)])

\* The registered factors that have parents, all of them registered, and no
\* evidence in the run
SampledChildren ==
  {c \in DOMAIN risk_structure :
     /\ ParentsOf(c) # {}
     /\ ParentsOf(c) \subseteq DOMAIN risk_structure
     /\ c \notin DOMAIN ret.before}

\* C19: in every iteration the probability a child is drawn from is its
\* marginal under the evidence alone, whatever the same iteration sampled
\* for its parents; and the row is one of the occurrence vectors the
\* marginals allow factor by factor.
C19_SamplingIgnoresSampledParents ==
  (RunDone /\ ret.kind = "value")
    => \A i \in 1..Len(ret.results) :
         /\ \A c \in SampledChildren :
              ret.used[i][c] = calculate_probability(ret.before, c, 1).val
         /\ [f \in DOMAIN risk_structure |-> Occurred(i, f)]
              \in IterationStates(ret.used[i])

\* A row whose child was drawn from a probability that differs from the one
\* conditioning on its sampled parents gives, and that occurred although
\* none of its parents did
C19_Witness ==
  /\ RunDone
  /\ ret.kind = "value"
  /\ \E i \in 1..Len(ret.results) :
       \E c \in SampledChildren :
          /\ ret.used[i][c] #
               calculate_probability(WithSampledParents(i, c), c, 1).val
          /\ Occurred(i, c)
          /\ \A p \in ParentsOf(c) : ~Occurred(i, p)

\* |p - q|
Distance(p, q) == IF RLe(p, q) THEN RSub(q, p) ELSE RSub(p, q)

\* C20: percentile_50 of analyze_results is within 1% of median_cost, the
\* sample median of the same frame's totals: 100 |p50 - median| <= median.
C20_Percentile50NearMedian ==
  AnalysisDone
    => RLe(RMul(Rat(100, 1),
                Distance(ret.analysis.percentile_50, ret.analysis.median_cost)),
           ret.analysis.median_cost)

\* A frame with an even number of rows whose two middle totals differ, so
\* the median lies between them
C20_Witness ==
  /\ AnalysisDone
  /\ Len(ret.results) % 2 = 0
  /\ \A i \in 1..Len(ret.results) :
        ret.results[i]["total"].float # ret.analysis.median_cost
  /\ RLt(ret.analysis.percentile_10, ret.analysis.percentile_50)
  /\ RLt(ret.analysis.percentile_50, ret.analysis.percentile_95)

\* C21: a probability query answers from the evidence map as it is when the
\* query is made: the call used the map the model holds now, left it as it
\* was, and returned what propagation gives under it; a factor with an
\* entry has that entry's value, whatever was set or simulated before.
C21_QueryReflectsCurrentEvidence ==
  CalcDone
    => /\ ret.before = evidence
       /\ ret.result.kind = calculate_probability(evidence, ret.factor, 1).kind
       /\ ret.result.val = calculate_probability(evidence, ret.factor, 1).val
       /\ (Registered(ret.factor) /\ ret.factor \in DOMAIN evidence)
            => ret.result.val = EvidenceValue(evidence[ret.factor])

\* A query whose answer differs from the one the empty evidence map gives
C21_Witness ==
  /\ CalcDone
  /\ ret.result.kind = "value"
  /\ ret.factor \notin DOMAIN evidence
  /\ DOMAIN evidence # {}
  /\ ret.result.val # calculate_probability(EmptyDict, ret.factor, 1).val

\* C22: a step that is a call of calculate_probability or of
\* get_all_probabilities leaves the evidence map, the risk structure and the
\* CPT as they were, and a second call in the state it leaves returns what
\* the first returned; get_all_probabilities gives every factor the value
\* calculate_probability gives it.
C22_QueriesArePure ==
  [][(/\ ret.op = "none"
      /\ ret'.op \in {"calculate_probability", "get_all_probabilities"})
       => /\ evidence' = evidence
          /\ risk_structure' = risk_structure
          /\ structure_keys' = structure_keys
          /\ cpt' = cpt
          /\ ret'.op = "calculate_probability"
               => ret'.result = calculate_probability(evidence', ret'.factor, 1)
          /\ ret'.op = "get_all_probabilities"
               => /\ ret'.result = get_all_probabilities(evidence')
                  /\ ret'.result.kind = "value"
                       => \A f \in DOMAIN risk_structure :
                            ret'.result.probs[f] =
                              calculate_probability(evidence', f, 1).val]_vars

\* A query of a factor without evidence that returned 0 or 1, under
\* evidence on another factor
C22_Witness ==
  /\ CalcDone
  /\ ret.result.kind = "value"
  /\ ret.result.val \in {RZero, ROne}
  /\ ret.factor \notin DOMAIN evidence
  /\ DOMAIN evidence # {}

\* C23: a step set_evidence(X, v) changes the probability of no factor
\* other than X and the factors X is an ancestor of: every other registered
\* factor, X's ancestors included, has the same probability (or the same
\* error) after the step as before it.
C23_PropagationIsForwardOnly ==
  [][(ret.op = "none" /\ ret'.op = "set_evidence")
       => \A f \in DOMAIN risk_structure :
            (f # ret'.factor /\ ret'.factor \notin Ancestors(f))
              => /\ calculate_probability(evidence', f, 1).kind =
                      calculate_probability(evidence, f, 1).kind
                 /\ calculate_probability(evidence', f, 1).val =
                      calculate_probability(evidence, f, 1).val]_vars

\* Evidence was set on a factor that has an ancestor and a descendant, and
\* the descendant's probability is not the one it has without that entry
C23_Witness ==
  /\ ret.op = "set_evidence"
  /\ Registered(ret.factor)
  /\ Ancestors(ret.factor) # {}
  /\ \E d \in DOMAIN risk_structure :
       /\ ret.factor \in Ancestors(d)
       /\ d \notin DOMAIN evidence
       /\ calculate_probability(evidence, d, 1).kind = "value"
       /\ calculate_probability(evidence, d, 1).val #
            calculate_probability(
              [x \in DOMAIN evidence \ {ret.factor} |-> evidence[x]], d, 1).val

\* C24: the evidence what_if_analysis analyses and simulates under is the
\* evidence held before the call overlaid with `events`: an entry of
\* `events` wins over an entry held for the same factor, entries for other
\* factors stay, and every simulated row has each registered factor of the
\* overlay as the overlay says.
C24_WhatIfRunsUnderOverlay ==
  WhatIfDone
    => /\ ret.during =
            [x \in DOMAIN ret.before \cup DOMAIN ret.events |->
               IF x \in DOMAIN ret.events THEN ret.events[x] ELSE ret.before[x]]
       /\ ret.kind = "value"
            => \A i \in 1..Len(ret.results) :
                 \A f \in DOMAIN ret.during \cap DOMAIN risk_structure :
                    Occurred(i, f) = ret.during[f]

\* A what-if that simulated with an event overriding a held entry of a
\* registered factor while another held entry stayed in force
C24_Witness ==
  /\ WhatIfDone
  /\ ret.kind = "value"
  /\ Len(ret.results) >= 1
  /\ \E f \in DOMAIN ret.events \cap DOMAIN ret.before \cap DOMAIN risk_structure :
        /\ ret.events[f] # ret.before[f]
        /\ Occurred(1, f) = ret.events[f]
  /\ \E g \in (DOMAIN ret.before \cap DOMAIN risk_structure) \ DOMAIN ret.events :
        Occurred(1, g) = ret.before[g]

\* C25: evidence persists until overwritten.  A step set_evidence(X, v)
\* leaves X with v, whatever X held, and every other entry as it was; a
\* step that is a simulation, its analysis or a what-if leaves every entry
\* in place.
C25_EvidencePersists ==
  [][/\ (ret.op = "none" /\ ret'.op = "set_evidence")
          => /\ evidence'[ret'.factor] = ret'.occurred
             /\ \A x \in DOMAIN evidence \ {ret'.factor} :
                  x \in DOMAIN evidence' /\ evidence'[x] = evidence[x]
     /\ ret'.op \in {"run_simulation", "analyze_results", "what_if_analysis"}
          => \A x \in DOMAIN evidence :
               x \in DOMAIN evidence' /\ evidence'[x] = evidence[x]]_vars

\* C26: in every row of a run, a registered factor with evidence true
\* occurred and one with evidence false did not, and a factor drawn from
\* probability 1 occurred and one drawn from probability 0 did not.
C26_CertainFactorsAreNotRandom ==
  (RunDone /\ ret.kind = "value")
    => \A i \in 1..Len(ret.results) :
         \A f \in DOMAIN risk_structure :
            /\ f \in DOMAIN ret.before => Occurred(i, f) = ret.before[f]
            /\ ret.used[i][f] = ROne => Occurred(i, f)
            /\ ret.used[i][f] = RZero => ~Occurred(i, f)

\* A row with a factor held true, a factor held false and a factor without
\* evidence whose probability is 0
C26_Witness ==
  /\ RunDone
  /\ ret.kind = "value"
  /\ Len(ret.results) >= 1
  /\ \E f, g \in DOMAIN ret.before \cap DOMAIN risk_structure :
        ret.before[f] /\ ~ret.before[g] /\ Occurred(1, f) /\ ~Occurred(1, g)
  /\ \E h \in DOMAIN risk_structure \ DOMAIN ret.before :
        ret.used[1][h] = RZero /\ ~Occurred(1, h)

\* The last call was calculate_probability of a registered CPT-backed
\* factor without evidence whose parents are all registered and all have
\* evidence
CalcUnderFixedParents ==
  /\ CalcDone
  /\ Registered(ret.factor)
  /\ ret.factor \in DOMAIN cpt
  /\ ret.factor \notin DOMAIN ret.before
  /\ ParentsOf(ret.factor) # {}
  /\ ParentsOf(ret.factor) \subseteq DOMAIN risk_structure \cap DOMAIN ret.before

\* The parents' evidence, in the order of risk.parents
FixedParentStates ==
  [j \in 1..NumParents |-> ret.before[risk_structure[ret.factor].parents[j]]]

\* C27: when every parent of a CPT-backed factor has evidence and the factor
\* has none, its probability is the CPT entry of the parents' evidence
\* combination, or 0 when the CPT has no such entry.
C27_FixedParentsSelectCptEntry ==
  CalcUnderFixedParents
    => /\ ret.result.kind = "value"
       /\ ret.result.val =
            IF FixedParentStates \in DOMAIN cpt[ret.factor]
              THEN cpt[ret.factor][FixedParentStates]
              ELSE RZero

\* Two parents fixed to different values select an entry strictly between
\* 0 and 1
C27_Witness ==
  /\ CalcUnderFixedParents
  /\ NumParents = 2
  /\ FixedParentStates[1] # FixedParentStates[2]
  /\ FixedParentStates \in DOMAIN cpt[ret.factor]
  /\ RLt(RZero, ret.result.val)
  /\ RLt(ret.result.val, ROne)

\* The four cost drivers of the built-in cost table
SampleDrivers == {"overtime", "material_waste", "equipment_extend", "rework"}

\* C28: with the built-in sample and its cost table, every row's total is at
\* most 111.8, a row's total exceeds 110 only if all four cost drivers
\* occurred in it, and analyze_results gives prob_over_budget_20 = 0.
C28_SampleTotalsAtMost111_8 ==
  /\ (RunDone /\ ret.kind = "value")
       => \A i \in 1..Len(ret.results) :
            /\ RLe(ret.results[i]["total"].float, Rat(1118, 10))
            /\ RLt(Rat(110, 1), ret.results[i]["total"].float)
                 => \A f \in SampleDrivers : Occurred(i, f)
  /\ AnalysisDone
       => /\ ret.analysis.prob_over_budget_20 = RZero
          /\ RLe(ret.analysis.percentile_95, Rat(1118, 10))

\* A row in which all four cost drivers occurred: its total is 111.8
C28_Witness ==
  /\ RunDone
  /\ ret.kind = "value"
  /\ cost_impacts = SampleCostImpacts
  /\ \E i \in 1..Len(ret.results) :
       /\ \A f \in SampleDrivers : Occurred(i, f)
       /\ ret.results[i]["total"].float = Rat(1118, 10)

\* The entries of an evidence map that name registered factors
RegisteredPart(ev) == [x \in DOMAIN ev \cap DOMAIN risk_structure |-> ev[x]]

\* C29: set_evidence on an id the risk structure does not hold stores the
\* entry; the entry changes no registered factor's probability and no
\* probability a simulation draws from (both are what the registered part
\* of the evidence alone gives), and calculate_probability of the id still
\* raises instead of returning 1.0 or 0.0.
C29_UnregisteredEvidenceIsInert ==
  /\ (ret.op = "set_evidence" /\ ~Registered(ret.factor))
       => /\ ret.factor \in DOMAIN evidence
          /\ evidence[ret.factor] = ret.occurred
  /\ (CalcDone /\ Registered(ret.factor))
       => /\ ret.result.kind =
               calculate_probability(RegisteredPart(ret.before), ret.factor, 1).kind
          /\ ret.result.val =
               calculate_probability(RegisteredPart(ret.before), ret.factor, 1).val
  /\ RunDone
       => /\ ret.n_iterations > 0
               => ret.kind = get_all_probabilities(RegisteredPart(ret.before)).kind
          /\ \A i \in 1..Len(ret.results) :
               ret.used[i] = get_all_probabilities(RegisteredPart(ret.before)).probs
  /\ (CalcDone /\ ~Registered(ret.factor) /\ ret.factor \in DOMAIN ret.before)
       => ret.result.kind = "KeyError"

\* A query of an unregistered id that has an evidence entry
C29_Witness ==
  /\ CalcDone
  /\ ~Registered(ret.factor)
  /\ ret.factor \in DOMAIN evidence
  /\ ret.result.kind = "KeyError"
  /\ \E f \in DOMAIN risk_structure : ret.factor \in ParentsOf(f)

\* C30: on a structure without cycles whose parent ids are all registered,
\* calculate_probability of a registered factor returns a value under every
\* evidence; it enters only the factor and ancestors of it, and when the
\* factor has parents and no evidence, every parent has been evaluated by
\* the time the value is combined.
C30_TerminatesParentsFirst ==
  (CalcDone /\ WellFormed /\ Registered(ret.factor))
    => /\ ret.result.kind = "value"
       /\ ret.factor \in ret.result.evaluated
       /\ ret.result.evaluated \subseteq {ret.factor} \cup Ancestors(ret.factor)
       /\ ret.factor \notin DOMAIN ret.before
            => ParentsOf(ret.factor) \subseteq ret.result.evaluated

\* A factor two levels below the roots whose calculation entered its
\* parents and a parent's parent
C30_Witness ==
  /\ CalcDone
  /\ WellFormed
  /\ Registered(ret.factor)
  /\ ret.result.kind = "value"
  /\ ParentsOf(ret.factor) \subseteq ret.result.evaluated
  /\ \E p \in ParentsOf(ret.factor) :
        ParentsOf(p) # {} /\ ParentsOf(p) \subseteq ret.result.evaluated
  /\ Cardinality(ret.result.evaluated) >= 4

====
